---------------------------- MODULE Spec2Model ----------------------------
(***************************************************************************)
(* viznet/edgenode.py: Node, Edge and Pin, the connection points of a      *)
(* diagram.                                                                *)
(*                                                                         *)
(* Numbers.  The code computes in floating point; the model computes in    *)
(* exact arithmetic on a fixed-point grid.  A coordinate or length c of    *)
(* the program is the integer c * Unit of the model, and Unit is chosen so *)
(* that every division the modelled operations perform on the shapes below *)
(* (by 2, by the vertex counts 3 and 4, and the factor 0.8 = 4/5) is       *)
(* exact (the invariant ExactArithmetic).  A direction vector is a pair of *)
(* plain integers, not scaled.                                             *)
(***************************************************************************)
EXTENDS Integers, Sequences, FiniteSets, TLC

VARIABLES
    nodes,      \* node id -> Node object (obj, style, path)
    edge,       \* <<>> or <<e>>: the Edge object of the diagram, once created
    created,    \* history: <<>> or <<c>>, the arguments Edge.__init__ received
                \* and the nodes as they were at that moment
    mutations,  \* number of changes made to the patches since construction
    result      \* the outcome of the last call

vars == <<nodes, edge, created, mutations, result>>

-----------------------------------------------------------------------------
(* Bounds *)

MaxMutations == 2

MaxDir == 2

-----------------------------------------------------------------------------
(* Fixed-point grid and vectors *)

Unit == 3 * 4 * 5

WeightNum == 4

WeightDen == 5

Pt(x, y) == <<x * Unit, y * Unit>>

Add(p, q) == <<p[1] + q[1], p[2] + q[2]>>

Sub(p, q) == <<p[1] - q[1], p[2] - q[2]>>

Scale(k, p) == <<k * p[1], k * p[2]>>

Dot(p, q) == p[1] * q[1] + p[2] * q[2]

Abs(x) == IF x < 0 THEN -x ELSE x

Half(x) == x \div 2

RECURSIVE Sum(_)
Sum(s) == IF s = <<>> THEN 0 ELSE Head(s) + Sum(Tail(s))

RECURSIVE Max(_)
Max(s) == IF Len(s) = 1 THEN s[1]
          ELSE LET m == Max(Tail(s)) IN IF s[1] >= m THEN s[1] ELSE m

\* ndarray.mean() of a one-dimensional array
Mean(s) == Sum(s) \div Len(s)

Column(rows, k) == [i \in 1..Len(rows) |-> rows[i][k]]

\* ndarray.mean(axis=0) of an array of points
MeanPoint(rows) == <<Mean(Column(rows, 1)), Mean(Column(rows, 2))>>

\* rows[:-1]
ButLast(rows) == SubSeq(rows, 1, Len(rows) - 1)

ArgMaxLast(s) ==
    CHOOSE i \in 1..Len(s) :
        /\ \A j \in 1..Len(s) : s[j] <= s[i]
        /\ \A j \in (i+1)..Len(s) : s[j] < s[i]

\* np.argmax: the first index holding the maximum
ArgMax(s) ==
    CHOOSE i \in 1..Len(s) :
        /\ \A j \in 1..Len(s) : s[j] <= s[i]
        /\ \A j \in 1..(i-1) : s[j] < s[i]

-----------------------------------------------------------------------------
(* The matplotlib patches a Node wraps *)

Circle(c, r) == [kind |-> "circle", center |-> c, radius |-> r]

Rectangle(xy, w, h) == [kind |-> "rectangle", xy |-> xy, width |-> w, height |-> h]

Polygon(verts) == [kind |-> "polygon", verts |-> verts]

\* Patch.get_verts(): the outline as a closed ring, the first vertex repeated
\* at the end.  A circle's outline is sampled at its four axis points; no
\* operation modelled here reads the path of a circle.
get_verts(obj) ==
    CASE obj.kind = "circle" ->
            LET c == obj.center
                r == obj.radius
            IN  << <<c[1] + r, c[2]>>, <<c[1], c[2] + r>>, <<c[1] - r, c[2]>>,
                   <<c[1], c[2] - r>>, <<c[1] + r, c[2]>> >>
      [] obj.kind = "rectangle" ->
            LET x == obj.xy[1]
                y == obj.xy[2]
                w == obj.width
                h == obj.height
            IN  << <<x, y>>, <<x + w, y>>, <<x + w, y + h>>, <<x, y + h>>, <<x, y>> >>
      [] OTHER -> obj.verts \o << obj.verts[1] >>

Tokens == {"top", "bottom", "left", "right"}

None == <<>>

NoPoint == <<>>

Ok(v) == [status |-> "ok", value |-> v]

Raise(e) == [status |-> e, value |-> NoPoint]

\* Pin.__init__
Pin(position) == [position |-> position]

-----------------------------------------------------------------------------
(* Node *)

\* Node.__init__: the path is read from the patch once, here.  style is
\* style[1], the shape token of the brush that drew the patch.
Node_init(obj, style) == [obj |-> obj, style |-> style, path |-> get_verts(obj)]

Node_position_closed(n) ==
    IF n.obj.kind = "circle" THEN n.obj.center
    ELSE IF n.obj.kind = "rectangle"
         THEN <<n.obj.xy[1] + Half(n.obj.width), n.obj.xy[2] + Half(n.obj.height)>>
         ELSE MeanPoint(n.path)

Node_position(n) ==
    IF n.obj.kind = "circle" THEN n.obj.center
    ELSE IF n.obj.kind = "rectangle"
         THEN <<n.obj.xy[1] + Half(n.obj.width), n.obj.xy[2] + Half(n.obj.height)>>
         ELSE MeanPoint(ButLast(n.path))

\* abs(v - v.mean()).max() * 2
Spread(v) == Max([i \in 1..Len(v) |-> Abs(v[i] - Mean(v))]) * 2

Node_height(n) ==
    IF n.obj.kind = "circle" THEN n.obj.radius * 2
    ELSE IF n.obj.kind = "rectangle" THEN n.obj.height
    ELSE Spread(Column(ButLast(n.path), 2))

Node_width(n) ==
    IF n.obj.kind = "circle" THEN n.obj.radius * 2
    ELSE IF n.obj.kind = "rectangle" THEN n.obj.width
    ELSE Spread(Column(ButLast(n.path), 1))

Node_offset_dict_swapped(n) ==
    LET w == Node_width(n)
        h == Node_height(n)
    IN  [top    |-> <<0, Half(w)>>,
         bottom |-> <<0, Half(-w)>>,
         left   |-> <<Half(-h), 0>>,
         right  |-> <<Half(h), 0>>]

Node_offset_dict(n) ==
    LET w == Node_width(n)
        h == Node_height(n)
    IN  [top    |-> <<0, Half(h)>>,
         bottom |-> <<0, Half(-h)>>,
         left   |-> <<Half(-w), 0>>,
         right  |-> <<Half(w), 0>>]

\* v * 0.8
Weighted(v) == <<(v[1] * WeightNum) \div WeightDen, (v[2] * WeightNum) \div WeightDen>>

Node_getattr_first(n, name) ==
    IF Len(name) # 2 THEN Raise("AttributeError")
    ELSE LET offset_dict == Node_offset_dict(n)
         IN  IF name[1] \notin DOMAIN offset_dict \/ name[2] \notin DOMAIN offset_dict
             THEN Raise("AttributeError")
             ELSE Ok(Add(Add(Weighted(offset_dict[name[1]]), offset_dict[name[2]]),
                         Node_position(n)))

\* Node.__getattr__(name).  name is the attribute name as the sequence of its
\* parts between underscores, which is what name.split('_') returns; the
\* unpacking d1, d2 = ... needs exactly two of them.
Node_getattr(n, name) ==
    IF Len(name) # 2 THEN Raise("AttributeError")
    ELSE LET offset_dict == Node_offset_dict(n)
         IN  IF name[1] \notin DOMAIN offset_dict \/ name[2] \notin DOMAIN offset_dict
             THEN Raise("AttributeError")
             ELSE Ok(Add(Add(offset_dict[name[1]], Weighted(offset_dict[name[2]])),
                         Node_position(n)))

Node_pin_crossed(n, direction, align) ==
    LET offset_dict == Node_offset_dict(n)
    IN  IF direction \notin DOMAIN offset_dict THEN Raise("KeyError")
        ELSE LET loc == Add(offset_dict[direction], Node_position(n))
             IN  IF align # None
                 THEN LET target == align[1].position
                      IN  IF direction \in {"bottom", "top"}
                          THEN Ok(<<loc[1], target[2]>>)
                          ELSE Ok(<<target[1], loc[2]>>)
                 ELSE Ok(loc)

\* Node.pin(direction, align) for a string direction.  align is None or
\* <<a>>, a an object with a position.
Node_pin(n, direction, align) ==
    LET offset_dict == Node_offset_dict(n)
    IN  IF direction \notin DOMAIN offset_dict THEN Raise("KeyError")
        ELSE LET loc == Add(offset_dict[direction], Node_position(n))
             IN  IF align # None
                 THEN LET target == align[1].position
                      IN  IF direction \in {"bottom", "top"}
                          THEN Ok(<<target[1], loc[2]>>)
                          ELSE IF direction \in {"left", "right"}
                               THEN Ok(<<loc[1], target[2]>>)
                               ELSE Raise("RuntimeError")
                 ELSE Ok(loc)

\* edge_centers = (vertices[:-1] + vertices[1:]) / 2.
EdgeCenters(vertices) ==
    [i \in 1..(Len(vertices) - 1) |->
        <<Half(vertices[i][1] + vertices[i+1][1]), Half(vertices[i][2] + vertices[i+1][2])>>]

Candidates_centers_first(vertices) == EdgeCenters(vertices) \o ButLast(vertices)

\* np.concatenate([vertices[:-1], edge_centers], axis=0)
Candidates(vertices) == ButLast(vertices) \o EdgeCenters(vertices)

Node_get_connection_point_diameter(n, direction) ==
    IF n.style = "circle"
    THEN Add(n.obj.center, Scale(2 * n.obj.radius, direction))
    ELSE LET candidates == Candidates(n.path)
             vdirection == <<-direction[2], direction[1]>>
             distance   == [i \in 1..Len(candidates) |->
                              LET c == Sub(candidates[i], Node_position(n))
                              IN  Dot(c, direction) - Abs(Dot(c, vdirection))]
         IN  candidates[ArgMax(distance)]

Node_get_connection_point(n, direction) ==
    IF n.style = "circle"
    THEN Add(n.obj.center, Scale(n.obj.radius, direction))
    ELSE LET candidates == Candidates(n.path)
             vdirection == <<-direction[2], direction[1]>>
             distance   == [i \in 1..Len(candidates) |->
                              LET c == Sub(candidates[i], Node_position(n))
                              IN  Dot(c, direction) - Abs(Dot(c, vdirection))]
         IN  candidates[ArgMax(distance)]

-----------------------------------------------------------------------------
(* Edge *)

\* Edge.__init__: the attributes an Edge has (obj and ax, the drawing, are
\* left out)
Edge_init(start_xy, end_xy, start, end) ==
    [start |-> start, end |-> end, start_xy |-> start_xy, end_xy |-> end_xy]

Edge_position_tracking(e) ==
    <<Half(Node_position(nodes[e.start])[1] + Node_position(nodes[e.end])[1]),
      Half(Node_position(nodes[e.start])[2] + Node_position(nodes[e.end])[2])>>

Edge_position(e) ==
    <<Half(e.start_xy[1] + e.end_xy[1]), Half(e.start_xy[2] + e.end_xy[2])>>

\* Edge.head: Pin(self.tail_xy); an attribute the object does not have is an
\* AttributeError
Edge_head(e) ==
    IF "tail_xy" \in DOMAIN e THEN Ok(Pin(e.tail_xy).position) ELSE Raise("AttributeError")

Edge_tail(e) ==
    IF "start_xy" \in DOMAIN e THEN Ok(Pin(e.start_xy).position) ELSE Raise("AttributeError")

-----------------------------------------------------------------------------
(* The diagram: its initial shapes and the inputs of the calls *)

Style(obj) == obj.kind

InitObjs ==
    { Circle(Pt(1, 1), Unit),
      Rectangle(Pt(0, 0), Unit, Unit),
      Rectangle(Pt(1, 0), 2 * Unit, Unit),
      Polygon(<< Pt(0, 0), Pt(3, 0), Pt(0, 6) >>),
      Polygon(<< Pt(0, 0), Pt(4, 0), Pt(4, 4), Pt(0, 1) >>) }

InitNodes == { Node_init(obj, Style(obj)) : obj \in InitObjs }

Deltas == { Pt(1, 0), Pt(0, -1) }

Directions == { <<dx, dy>> : dx \in (-MaxDir)..MaxDir, dy \in (-MaxDir)..MaxDir }

PinDirections == Tokens \cup {"middle"}

AlignTargets == { None, << Pin(Pt(5, 7)) >>, << Pin(Pt(-2, 3)) >> }

AttrNames ==
    { <<d1, d2>> : d1 \in PinDirections, d2 \in PinDirections }
        \cup { <<"top">>, <<"top", "left", "right">> }

EdgeDirections == { <<1, 0>>, <<1, 1>> }

NoResult ==
    [op |-> "none", self |-> 0, arg |-> <<>>, align |-> None,
     status |-> "ok", value |-> NoPoint]

Returned(op, self, arg, align, outcome) ==
    [op |-> op, self |-> self, arg |-> arg, align |-> align,
     status |-> outcome.status, value |-> outcome.value]

NodeIds == DOMAIN nodes

-----------------------------------------------------------------------------
(* Changes a caller makes to a node's patch after the Node was built.  The   *)
(* Node holds the patch by reference (self.obj) and its path by value.       *)

Moved(obj, d) ==
    CASE obj.kind = "circle" -> [obj EXCEPT !.center = Add(obj.center, d)]
      [] obj.kind = "rectangle" -> [obj EXCEPT !.xy = Add(obj.xy, d)]
      [] OTHER -> [obj EXCEPT !.verts = [i \in 1..Len(obj.verts) |-> Add(obj.verts[i], d)]]

Reshaped(obj) ==
    CASE obj.kind = "circle" -> [obj EXCEPT !.radius = obj.radius + Unit]
      [] obj.kind = "rectangle" -> [obj EXCEPT !.width = obj.width + Unit]
      [] OTHER -> [obj EXCEPT !.verts[2] = Add(obj.verts[2], Pt(1, 0))]

Move(n, d) ==
    /\ mutations < MaxMutations
    /\ nodes' = [nodes EXCEPT ![n].obj = Moved(nodes[n].obj, d)]
    /\ mutations' = mutations + 1
    /\ result' = NoResult
    /\ UNCHANGED <<edge, created>>

Reshape(n) ==
    /\ mutations < MaxMutations
    /\ nodes' = [nodes EXCEPT ![n].obj = Reshaped(nodes[n].obj)]
    /\ mutations' = mutations + 1
    /\ result' = NoResult
    /\ UNCHANGED <<edge, created>>

-----------------------------------------------------------------------------
(* Calls on a Node *)

Position(n) ==
    /\ result' = Returned("position", n, <<>>, None, Ok(Node_position(nodes[n])))
    /\ UNCHANGED <<nodes, edge, created, mutations>>

Width(n) ==
    /\ result' = Returned("width", n, <<>>, None, Ok(<<Node_width(nodes[n])>>))
    /\ UNCHANGED <<nodes, edge, created, mutations>>

Height(n) ==
    /\ result' = Returned("height", n, <<>>, None, Ok(<<Node_height(nodes[n])>>))
    /\ UNCHANGED <<nodes, edge, created, mutations>>

CallPin(n, direction, align) ==
    /\ result' = Returned("pin", n, <<direction>>, align,
                          Node_pin(nodes[n], direction, align))
    /\ UNCHANGED <<nodes, edge, created, mutations>>

GetAttr(n, name) ==
    /\ result' = Returned("getattr", n, name, None, Node_getattr(nodes[n], name))
    /\ UNCHANGED <<nodes, edge, created, mutations>>

GetConnectionPoint(n, direction) ==
    /\ result' = Returned("get_connection_point", n, direction, None,
                          Ok(Node_get_connection_point(nodes[n], direction)))
    /\ UNCHANGED <<nodes, edge, created, mutations>>

-----------------------------------------------------------------------------
(* Edges *)

\* A caller connects two nodes: it asks each for its connection point towards
\* the other and builds the Edge from the two points.
Connect(a, b, d) ==
    /\ edge = <<>>
    /\ a # b
    /\ LET start_xy == Node_get_connection_point(nodes[a], d)
           end_xy   == Node_get_connection_point(nodes[b], Scale(-1, d))
       IN  /\ edge' = << Edge_init(start_xy, end_xy, a, b) >>
           /\ created' = << [start_xy |-> start_xy, end_xy |-> end_xy, nodes |-> nodes] >>
    /\ result' = NoResult
    /\ UNCHANGED <<nodes, mutations>>

EdgePosition ==
    /\ edge # <<>>
    /\ result' = Returned("Edge.position", 0, <<>>, None, Ok(Edge_position(edge[1])))
    /\ UNCHANGED <<nodes, edge, created, mutations>>

EdgeHead ==
    /\ edge # <<>>
    /\ result' = Returned("Edge.head", 0, <<>>, None, Edge_head(edge[1]))
    /\ UNCHANGED <<nodes, edge, created, mutations>>

EdgeTail ==
    /\ edge # <<>>
    /\ result' = Returned("Edge.tail", 0, <<>>, None, Edge_tail(edge[1]))
    /\ UNCHANGED <<nodes, edge, created, mutations>>

-----------------------------------------------------------------------------
(* Specifications *)

\* One node, its patch changed by the caller, and every call on it.
Init ==
    /\ nodes \in [{1} -> InitNodes]
    /\ edge = <<>>
    /\ created = <<>>
    /\ mutations = 0
    /\ result = NoResult

Next ==
    \/ \E n \in NodeIds, d \in Deltas : Move(n, d)
    \/ \E n \in NodeIds : Reshape(n)
    \/ \E n \in NodeIds : Position(n)
    \/ \E n \in NodeIds : Width(n)
    \/ \E n \in NodeIds : Height(n)
    \/ \E n \in NodeIds, direction \in PinDirections, align \in AlignTargets :
            CallPin(n, direction, align)
    \/ \E n \in NodeIds, name \in AttrNames : GetAttr(n, name)
    \/ \E n \in NodeIds, direction \in Directions : GetConnectionPoint(n, direction)

Spec == Init /\ [][Next]_vars

\* Two nodes, an edge between them, and the calls on the edge.
EdgeInit ==
    /\ nodes \in [{1, 2} -> InitNodes]
    /\ edge = <<>>
    /\ created = <<>>
    /\ mutations = 0
    /\ result = NoResult

EdgeNext ==
    \/ \E n \in NodeIds, d \in Deltas : Move(n, d)
    \/ \E n \in NodeIds : Reshape(n)
    \/ \E a \in NodeIds, b \in NodeIds, d \in EdgeDirections : Connect(a, b, d)
    \/ EdgePosition
    \/ EdgeHead
    \/ EdgeTail

EdgeSpec == EdgeInit /\ [][EdgeNext]_vars

\* every division of the modelled operations is exact on the grid
ExactArithmetic ==
    /\ \A n \in NodeIds :
        LET nd == nodes[n]
            ring == ButLast(nd.path)
        IN  /\ Node_width(nd) % 2 = 0
            /\ Node_height(nd) % 2 = 0
            /\ (Half(Node_width(nd)) * WeightNum) % WeightDen = 0
            /\ (Half(Node_height(nd)) * WeightNum) % WeightDen = 0
            /\ Sum(Column(ring, 1)) % Len(ring) = 0
            /\ Sum(Column(ring, 2)) % Len(ring) = 0
            /\ Sum(Column(nd.path, 1)) % Len(nd.path) = 0
            /\ Sum(Column(nd.path, 2)) % Len(nd.path) = 0
            /\ \A i \in 1..(Len(nd.path) - 1) :
                  /\ (nd.path[i][1] + nd.path[i+1][1]) % 2 = 0
                  /\ (nd.path[i][2] + nd.path[i+1][2]) % 2 = 0
    /\ edge # <<>> =>
          /\ (edge[1].start_xy[1] + edge[1].end_xy[1]) % 2 = 0
          /\ (edge[1].start_xy[2] + edge[1].end_xy[2]) % 2 = 0

-----------------------------------------------------------------------------
(* Claims *)

\* the node the last call was made on
Self == nodes[result.self]

UnitSquareRing == << Pt(0, 0), Pt(1, 0), Pt(1, 1), Pt(0, 1), Pt(0, 0) >>

\* the node is the unit square, where it was built
IsUnitSquare(nd) == nd.path = UnitSquareRing /\ get_verts(nd.obj) = nd.path

\* C1: pin(d) for a single token d and no alignment is the centroid moved by
\* half the height (top: +y, bottom: -y) or half the width (right: +x,
\* left: -x) along that axis only; on the unit square 'top' is (0.5, 1.0).
C1_PinSingle ==
    (result.op = "pin" /\ result.arg[1] \in Tokens /\ result.align = None) =>
        LET c == Node_position(Self)
            w == Node_width(Self)
            h == Node_height(Self)
            d == result.arg[1]
            v == result.value
        IN  /\ result.status = "ok"
            /\ d = "top"    => v[1] = c[1] /\ 2 * v[2] = 2 * c[2] + h
            /\ d = "bottom" => v[1] = c[1] /\ 2 * v[2] = 2 * c[2] - h
            /\ d = "right"  => v[2] = c[2] /\ 2 * v[1] = 2 * c[1] + w
            /\ d = "left"   => v[2] = c[2] /\ 2 * v[1] = 2 * c[1] - w
            /\ (d = "top" /\ IsUnitSquare(Self)) => Scale(2, v) = <<Unit, 2 * Unit>>

C1_Witness ==
    /\ result.op = "pin"
    /\ result.arg = <<"top">>
    /\ result.align = None
    /\ IsUnitSquare(Self)
    /\ Scale(2, result.value) = <<Unit, 2 * Unit>>

\* C2: pin(d, align=P) differs from pin(d) in the perpendicular coordinate
\* only: for left/right y is P's y and x is that of pin(d); for top/bottom x
\* is P's x and y is that of pin(d).
C2_PinAligned ==
    (result.op = "pin" /\ result.arg[1] \in Tokens /\ result.align # None) =>
        LET P  == result.align[1].position
            d  == result.arg[1]
            c  == Node_position(Self)
            v  == result.value
        IN  /\ result.status = "ok"
            /\ d = "right"  => v[2] = P[2] /\ 2 * v[1] = 2 * c[1] + Node_width(Self)
            /\ d = "left"   => v[2] = P[2] /\ 2 * v[1] = 2 * c[1] - Node_width(Self)
            /\ d = "top"    => v[1] = P[1] /\ 2 * v[2] = 2 * c[2] + Node_height(Self)
            /\ d = "bottom" => v[1] = P[1] /\ 2 * v[2] = 2 * c[2] - Node_height(Self)

C2_Witness ==
    /\ result.op = "pin"
    /\ result.arg = <<"right">>
    /\ result.align # None
    /\ result.status = "ok"
    /\ result.value[2] = result.align[1].position[2]
    /\ result.value[2] # Node_position(Self)[2]

\* the offset the claims call offset(d), times two
Offset2(nd, d) ==
    CASE d = "top"    -> <<0, Node_height(nd)>>
      [] d = "bottom" -> <<0, -Node_height(nd)>>
      [] d = "left"   -> <<-Node_width(nd), 0>>
      [] d = "right"  -> <<Node_width(nd), 0>>

\* C3: the anchor d1_d2 is centroid + offset(d1) + 0.8 * offset(d2), for every
\* ordered pair of tokens; top_left and left_top differ when width # height.
C3_Compound ==
    (/\ result.op = "getattr"
     /\ Len(result.arg) = 2
     /\ result.arg[1] \in Tokens
     /\ result.arg[2] \in Tokens) =>
        LET c == Node_position(Self)
            v == result.value
        IN  /\ result.status = "ok"
            /\ Scale(2 * WeightDen, Sub(v, c))
                  = Add(Scale(WeightDen, Offset2(Self, result.arg[1])),
                        Scale(WeightNum, Offset2(Self, result.arg[2])))
            /\ (result.arg = <<"top", "left">> /\ Node_width(Self) # Node_height(Self))
                  => v # Node_getattr(Self, <<"left", "top">>).value

C3_Witness ==
    /\ result.op = "getattr"
    /\ result.arg = <<"top", "left">>
    /\ result.status = "ok"
    /\ Node_width(Self) # Node_height(Self)
    /\ result.value # Node_getattr(Self, <<"left", "top">>).value

\* candidate i of a ring, times two: the vertices without the closing
\* duplicate, then the midpoint of every edge
Candidate2(path, i) ==
    LET m == Len(path) - 1
    IN  IF i <= m THEN Scale(2, path[i]) ELSE Add(path[i - m], path[i - m + 1])

\* the score of candidate i, times two
Score2(nd, d, i) ==
    LET off == Sub(Candidate2(nd.path, i), Scale(2, Node_position(nd)))
    IN  Dot(off, d) - Abs(Dot(off, <<-d[2], d[1]>>))

\* C4: on a rectangle or polygon get_connection_point returns a candidate of
\* maximal score, the earliest such in the vertices-then-midpoints order; on
\* the unit square, direction (1,1) gives the vertex (1,1).
C4_ConnectionPoint ==
    (result.op = "get_connection_point" /\ Self.style # "circle") =>
        LET d == result.arg
            K == 1..(2 * (Len(Self.path) - 1))
        IN  /\ result.status = "ok"
            /\ \E i \in K :
                  /\ Scale(2, result.value) = Candidate2(Self.path, i)
                  /\ \A j \in K : Score2(Self, d, j) <= Score2(Self, d, i)
                  /\ \A j \in K : j < i => Score2(Self, d, j) < Score2(Self, d, i)
            /\ (IsUnitSquare(Self) /\ d = <<1, 1>>) => result.value = Pt(1, 1)

\* a direction that is not zero, for which two different candidates tie
C4_Witness ==
    /\ result.op = "get_connection_point"
    /\ Self.style # "circle"
    /\ result.arg # <<0, 0>>
    /\ \E i, j \in 1..(2 * (Len(Self.path) - 1)) :
          /\ i < j
          /\ Candidate2(Self.path, i) # Candidate2(Self.path, j)
          /\ Scale(2, result.value) = Candidate2(Self.path, i)
          /\ Score2(Self, result.arg, i) = Score2(Self, result.arg, j)

\* C5 as stated: on a circle, any direction v # 0 gives the point at distance
\* exactly r from the centre, in the direction of v.
C5_CircleAtRadius ==
    (result.op = "get_connection_point" /\ Self.style = "circle"
        /\ result.arg # <<0, 0>>) =>
        LET off == Sub(result.value, Self.obj.center)
        IN  /\ Dot(off, off) = Self.obj.radius * Self.obj.radius
            /\ off[1] * result.arg[2] = off[2] * result.arg[1]
            /\ Dot(off, result.arg) > 0

\* C5, amended: on a circle the result is centre + r * v, v not normalised: it
\* lies in the direction of v at distance r * |v|, which is r exactly when v
\* is a unit vector.
C5_CircleScaled ==
    (result.op = "get_connection_point" /\ Self.style = "circle") =>
        LET off == Sub(result.value, Self.obj.center)
            r   == Self.obj.radius
            v   == result.arg
        IN  /\ result.status = "ok"
            /\ off = <<r * v[1], r * v[2]>>
            /\ Dot(off, off) = r * r * Dot(v, v)
            /\ (Dot(off, off) = r * r) <=> (Dot(v, v) = 1)

C5_Witness ==
    /\ result.op = "get_connection_point"
    /\ Self.style = "circle"
    /\ result.arg = <<1, 1>>
    /\ LET off == Sub(result.value, Self.obj.center)
       IN  Dot(off, off) = 2 * Self.obj.radius * Self.obj.radius

\* C6 as stated: a direction of zero length fails with DegenerateDirection
\* and returns no point.
C6_ZeroDirectionFails ==
    (result.op = "get_connection_point" /\ result.arg = <<0, 0>>) =>
        result.status = "DegenerateDirection" /\ result.value = NoPoint

\* C6, amended: a direction of zero length raises nothing and returns a
\* point: the centre of a circle, the first vertex of the stored path of a
\* rectangle or polygon.
C6_ZeroDirectionReturns ==
    (result.op = "get_connection_point" /\ result.arg = <<0, 0>>) =>
        /\ result.status = "ok"
        /\ Self.style = "circle" => result.value = Self.obj.center
        /\ Self.style # "circle" => result.value = Self.path[1]

C6_Witness ==
    /\ result.op = "get_connection_point"
    /\ result.arg = <<0, 0>>
    /\ Self.style # "circle"
    /\ result.value = Self.path[1]

\* C7: for a polygon whose path is a closed ring, with m the number of
\* vertices, the closing duplicate counted once: position is their mean, and
\* width and height are twice the largest distance of a vertex's x and y from
\* that mean.
C7_PolygonGeometry ==
    (result.op \in {"position", "width", "height"} /\ Self.obj.kind = "polygon") =>
        LET path == Self.path
            m    == Len(path) - 1
            sx   == Sum([i \in 1..m |-> path[i][1]])
            sy   == Sum([i \in 1..m |-> path[i][2]])
            v    == result.value
            IsSpread(k, s) ==
                /\ \E i \in 1..m : m * v[1] = 2 * Abs(m * path[i][k] - s)
                /\ \A i \in 1..m : m * v[1] >= 2 * Abs(m * path[i][k] - s)
        IN  /\ path[m + 1] = path[1]
            /\ result.op = "position" => m * v[1] = sx /\ m * v[2] = sy
            /\ result.op = "width"  => IsSpread(1, sx)
            /\ result.op = "height" => IsSpread(2, sy)

\* a polygon whose width is not the span of its bounding box
C7_Witness ==
    /\ result.op = "width"
    /\ Self.obj.kind = "polygon"
    /\ LET xs == { Self.path[i][1] : i \in 1..Len(Self.path) }
       IN  \E hi \in xs, lo \in xs :
              /\ \A x \in xs : lo <= x /\ x <= hi
              /\ result.value[1] # hi - lo

\* C8 as stated: position, width, height and the connection point are those
\* of the geometry as it is when asked, that is, those a Node built on the
\* patch at that moment gives.
C8_NeverCached ==
    LET fresh == Node_init(Self.obj, Self.style)
    IN  /\ result.op = "position" => result.value = Node_position(fresh)
        /\ result.op = "width"    => result.value = <<Node_width(fresh)>>
        /\ result.op = "height"   => result.value = <<Node_height(fresh)>>
        /\ result.op = "get_connection_point"
              => result.value = Node_get_connection_point(fresh, result.arg)

\* C9: the position of an Edge is the mean of the two points it was built
\* from, whatever happened to its nodes since.
C9_EdgeFrozen ==
    result.op = "Edge.position" =>
        /\ result.status = "ok"
        /\ Scale(2, result.value) = Add(created[1].start_xy, created[1].end_xy)

\* the position is asked after both nodes of the edge were changed
C9_Witness ==
    /\ result.op = "Edge.position"
    /\ nodes[edge[1].start].obj # created[1].nodes[edge[1].start].obj
    /\ nodes[edge[1].end].obj # created[1].nodes[edge[1].end].obj
    /\ Scale(2, result.value) = Add(created[1].start_xy, created[1].end_xy)

\* C10 as stated: tail() is a Pin at start_xy, head() a Pin at end_xy, and
\* neither fails.
C10_HeadTail ==
    /\ result.op = "Edge.tail" =>
          result.status = "ok" /\ result.value = edge[1].start_xy
    /\ result.op = "Edge.head" =>
          result.status = "ok" /\ result.value = edge[1].end_xy

=============================================================================
